---- MODULE Spec2Model ----
(***************************************************************************)
(* Namespaces on top of a flat memcache: nsmemcache.Client.                *)
(*                                                                         *)
(* Strings are sequences of one-character strings, so that the derived     *)
(* keys '__ns_%s' % ns and '__%s_%s_%s' % (ns, id, key) are real           *)
(* concatenations and two derivations can yield the same key.              *)
(* The cache is one shared store; every client call is a sequence of       *)
(* atomic cache primitives (add, get, set, incr, decr, delete), one per    *)
(* step, with the client's position between them kept in pc.               *)
(***************************************************************************)
EXTENDS Integers, Sequences, FiniteSets, TLC

\* ------------------------------------------------------------------ bounds
\* calls (completed or in flight) in one behaviour
MaxOps == 4

\* ------------------------------------------------------------- the inputs
Clients == {"c1", "c2", "c3"}
Pair == {"c1", "c2"}

\* "ns" and "1_a": the entry key of ("ns", "a") at version 1 is "__ns_1_a",
\* which is also the control key of "1_a"
Namespaces == {<<"n", "s">>, <<"1", "_", "a">>}
OneNamespace == {<<"n", "s">>}
Keys == {<<"a">>}
TwoKeys == {<<"a">>, <<"k">>}
Values == {<<"7">>, <<"x">>}
Amounts == {1, 2}

\* ---------------------------------------------------------------- strings
Digits == <<"0", "1", "2", "3", "4", "5", "6", "7", "8", "9">>

IsDigit(ch) == \E d \in 1..10 : Digits[d] = ch

DigitVal(ch) == (CHOOSE d \in 1..10 : Digits[d] = ch) - 1

\* a non-empty string of decimal digits (what incr/decr accept)
IsNumeric(s) == Len(s) > 0 /\ \A i \in 1..Len(s) : IsDigit(s[i])

RECURSIVE ToInt(_)
ToInt(s) ==
  IF Len(s) = 0 THEN 0
  ELSE ToInt(SubSeq(s, 1, Len(s) - 1)) * 10 + DigitVal(s[Len(s)])

RECURSIVE Dec(_)
Dec(n) ==
  IF n < 10 THEN <<Digits[n + 1]>>
  ELSE Dec(n \div 10) \o <<Digits[(n % 10) + 1]>>

\* ---------------------------------------------------------- Python values
\* val is the text of the value, i.e. '%s' % value
PyNone == [kind |-> "None", val |-> <<"N", "o", "n", "e">>]
PyTrue == [kind |-> "bool", val |-> <<"T", "r", "u", "e">>]
PyFalse == [kind |-> "bool", val |-> <<"F", "a", "l", "s", "e">>]
PyStr(s) == [kind |-> "str", val |-> s]
PyInt(n) == [kind |-> "int", val |-> Dec(n)]

\* '%s' % v
Format(v) == v.val

\* not(v) is false
Truthy(v) ==
  CASE v.kind = "None" -> FALSE
    [] v.kind = "bool" -> v = PyTrue
    [] v.kind = "int" -> v.val # <<"0">>
    [] OTHER -> v.val # <<>>

\* --------------------------------------------------- the underlying cache
\* memcache.Client, which Client inherits: a store m maps the keys present to
\* the stored text. set and add store the text of the value ('1' for 1), get
\* returns the text or None, incr and decr return the new number; nothing is
\* ever evicted.
Put(m, k, s) == [x \in DOMAIN m \cup {k} |-> IF x = k THEN s ELSE m[x]]
Drop(m, k) == [x \in DOMAIN m \ {k} |-> m[x]]

CacheGet(m, k) == IF k \in DOMAIN m THEN PyStr(m[k]) ELSE PyNone

CacheSetStore(m, k, v) == Put(m, k, Format(v))
CacheSetRet(m, k, v) == PyTrue

\* add succeeds only when the key is absent
CacheAddRet(m, k, v) == IF k \in DOMAIN m THEN PyFalse ELSE PyTrue
CacheAddStore(m, k, v) == IF k \in DOMAIN m THEN m ELSE Put(m, k, Format(v))

\* incr/decr fail on an absent key and on a value that is not a number;
\* decr stops at 0
CanCount(m, k) == k \in DOMAIN m /\ IsNumeric(m[k])
CacheIncrRet(m, k, a) == IF CanCount(m, k) THEN PyInt(ToInt(m[k]) + a) ELSE PyNone
CacheIncrStore(m, k, a) ==
  IF CanCount(m, k) THEN Put(m, k, Dec(ToInt(m[k]) + a)) ELSE m
Floor0(n) == IF n < 0 THEN 0 ELSE n
CacheDecrRet(m, k, a) ==
  IF CanCount(m, k) THEN PyInt(Floor0(ToInt(m[k]) - a)) ELSE PyNone
CacheDecrStore(m, k, a) ==
  IF CanCount(m, k) THEN Put(m, k, Dec(Floor0(ToInt(m[k]) - a))) ELSE m

CacheDeleteRet(m, k) == IF k \in DOMAIN m THEN PyInt(1) ELSE PyInt(0)
CacheDeleteStore(m, k) == Drop(m, k)

\* ------------------------------------------------------------ derived keys
\* ns_key = ('__ns_%s' % ns)
NsKey(ns) == <<"_", "_", "n", "s", "_">> \o ns

\* the real key with the id ahead of the namespace
RealKeyIdFirst(ns, id, key) ==
  <<"_", "_">> \o id \o <<"_">> \o ns \o <<"_">> \o key

\* ('__%s_%s_%s' % (ns, id, key))
RealKey(ns, id, key) == <<"_", "_">> \o ns \o <<"_">> \o id \o <<"_">> \o key

\* ------------------------------------------------------------------ state
VARIABLES
  cache,  \* the memcache store shared by every client
  pc,     \* where each client stands in its current call
  op,     \* the call each client is in (or has just finished)
  id,     \* _get_key's local id
  nk,     \* the real key _get_key returned
  added,  \* whether _get_key's add created the control key
  hist    \* the calls completed so far, in order of completion

vars == <<cache, pc, op, id, nk, added, hist>>

NoOp == [name |-> "none", ns |-> <<>>, key |-> <<>>, val |-> <<>>, amount |-> 0,
         after |-> 0]

Init ==
  /\ cache = <<>>
  /\ pc = [c \in Clients |-> "idle"]
  /\ op = [c \in Clients |-> NoOp]
  /\ id = [c \in Clients |-> <<>>]
  /\ nk = [c \in Clients |-> <<>>]
  /\ added = [c \in Clients |-> FALSE]
  /\ hist = <<>>

Busy == Cardinality({c \in Clients : pc[c] # "idle"})

CanStart(c) == pc[c] = "idle" /\ Len(hist) + Busy < MaxOps

\* a call as the caller sees it: what was asked, what came back, the version
\* it ran under and how many calls had completed when it started
Done(c, r, ver, cr) ==
  [name |-> op[c].name, ns |-> op[c].ns, key |-> op[c].key, val |-> op[c].val,
   amount |-> op[c].amount, after |-> op[c].after, ret |-> r, ver |-> ver,
   created |-> cr]

Return(c, r) ==
  /\ pc' = [pc EXCEPT ![c] = "idle"]
  /\ hist' = Append(hist, Done(c, r, id[c], added[c]))

\* ---------------------------------------------------------------- _get_key
\* _get_key that creates the control key with set instead of add
GetKeyAddCallsSet(c, name, ns, key, val, amount) ==
  /\ CanStart(c)
  /\ op' = [op EXCEPT ![c] = [name |-> name, ns |-> ns, key |-> key, val |-> val,
                              amount |-> amount, after |-> Len(hist)]]
  /\ cache' = CacheSetStore(cache, NsKey(ns), PyStr(<<"1">>))
  /\ id' = [id EXCEPT ![c] = <<"1">>]
  /\ added' = [added EXCEPT ![c] = TRUE]
  /\ nk' = [nk EXCEPT ![c] = RealKey(ns, <<"1">>, key)]
  /\ pc' = [pc EXCEPT ![c] = "call"]
  /\ UNCHANGED hist

\* lines 74-76 (and 78 when the add succeeds): the first step of every ns_*
\* call but ns_flush
GetKeyAdd(c, name, ns, key, val, amount) ==
  /\ CanStart(c)
  /\ op' = [op EXCEPT ![c] = [name |-> name, ns |-> ns, key |-> key, val |-> val,
                              amount |-> amount, after |-> Len(hist)]]
  /\ cache' = CacheAddStore(cache, NsKey(ns), PyStr(<<"1">>))
  /\ id' = [id EXCEPT ![c] = <<"1">>]
  /\ IF Truthy(CacheAddRet(cache, NsKey(ns), PyStr(<<"1">>)))
     THEN /\ added' = [added EXCEPT ![c] = TRUE]
          /\ nk' = [nk EXCEPT ![c] = RealKey(ns, <<"1">>, key)]
          /\ pc' = [pc EXCEPT ![c] = "call"]
     ELSE /\ added' = [added EXCEPT ![c] = FALSE]
          /\ nk' = [nk EXCEPT ![c] = <<>>]
          /\ pc' = [pc EXCEPT ![c] = "get_key_get"]
  /\ UNCHANGED hist

\* _get_key that puts the control key back at 1 when the get finds no number
GetKeyGetRepairs(c) ==
  /\ pc[c] = "get_key_get"
  /\ IF CanCount(cache, NsKey(op[c].ns))
     THEN /\ id' = [id EXCEPT ![c] = Format(CacheGet(cache, NsKey(op[c].ns)))]
          /\ UNCHANGED cache
     ELSE /\ id' = [id EXCEPT ![c] = <<"1">>]
          /\ cache' = CacheSetStore(cache, NsKey(op[c].ns), PyInt(1))
  /\ nk' = [nk EXCEPT ![c] = RealKey(op[c].ns, id'[c], op[c].key)]
  /\ pc' = [pc EXCEPT ![c] = "call"]
  /\ UNCHANGED <<op, added, hist>>

\* lines 77-78
GetKeyGet(c) ==
  /\ pc[c] = "get_key_get"
  /\ id' = [id EXCEPT ![c] = Format(CacheGet(cache, NsKey(op[c].ns)))]
  /\ nk' = [nk EXCEPT ![c] = RealKey(op[c].ns, id'[c], op[c].key)]
  /\ pc' = [pc EXCEPT ![c] = "call"]
  /\ UNCHANGED <<cache, op, added, hist>>

\* ----------------------------------------------------------- the ns_* calls
Calling(c, name) == pc[c] = "call" /\ op[c].name = name

\* line 110
NsGet(c) ==
  /\ Calling(c, "get")
  /\ Return(c, CacheGet(cache, nk[c]))
  /\ UNCHANGED <<cache, op, id, nk, added>>

\* line 103
NsSet(c) ==
  /\ Calling(c, "set")
  /\ cache' = CacheSetStore(cache, nk[c], PyStr(op[c].val))
  /\ Return(c, CacheSetRet(cache, nk[c], PyStr(op[c].val)))
  /\ UNCHANGED <<op, id, nk, added>>

\* ns_add that resolves the key again when the add fails
NsAddRetries(c) ==
  /\ Calling(c, "add")
  /\ cache' = CacheAddStore(cache, nk[c], PyStr(op[c].val))
  /\ IF Truthy(CacheAddRet(cache, nk[c], PyStr(op[c].val)))
     THEN Return(c, PyTrue)
     ELSE /\ pc' = [pc EXCEPT ![c] = "get_key_get"]
          /\ UNCHANGED hist
  /\ UNCHANGED <<op, id, nk, added>>

\* line 96
NsAdd(c) ==
  /\ Calling(c, "add")
  /\ cache' = CacheAddStore(cache, nk[c], PyStr(op[c].val))
  /\ Return(c, CacheAddRet(cache, nk[c], PyStr(op[c].val)))
  /\ UNCHANGED <<op, id, nk, added>>

\* line 117
NsIncr(c) ==
  /\ Calling(c, "incr")
  /\ cache' = CacheIncrStore(cache, nk[c], op[c].amount)
  /\ Return(c, CacheIncrRet(cache, nk[c], op[c].amount))
  /\ UNCHANGED <<op, id, nk, added>>

\* ns_decr that calls incr
NsDecrCallsIncr(c) ==
  /\ Calling(c, "decr")
  /\ cache' = CacheIncrStore(cache, nk[c], op[c].amount)
  /\ Return(c, CacheIncrRet(cache, nk[c], op[c].amount))
  /\ UNCHANGED <<op, id, nk, added>>

\* line 124
NsDecr(c) ==
  /\ Calling(c, "decr")
  /\ cache' = CacheDecrStore(cache, nk[c], op[c].amount)
  /\ Return(c, CacheDecrRet(cache, nk[c], op[c].amount))
  /\ UNCHANGED <<op, id, nk, added>>

\* ns_delete that deletes the control key instead of the real key
NsDeleteDropsNsKey(c) ==
  /\ Calling(c, "delete")
  /\ cache' = CacheDeleteStore(cache, NsKey(op[c].ns))
  /\ Return(c, CacheDeleteRet(cache, NsKey(op[c].ns)))
  /\ UNCHANGED <<op, id, nk, added>>

\* line 131
NsDelete(c) ==
  /\ Calling(c, "delete")
  /\ cache' = CacheDeleteStore(cache, nk[c])
  /\ Return(c, CacheDeleteRet(cache, nk[c]))
  /\ UNCHANGED <<op, id, nk, added>>

\* ---------------------------------------------------------------- ns_flush
\* ns_flush with the test of line 88 inverted: the set follows a successful incr
FlushIncrInverted(c, ns) ==
  /\ CanStart(c)
  /\ op' = [op EXCEPT ![c] = [name |-> "flush", ns |-> ns, key |-> <<>>,
                              val |-> <<>>, amount |-> 0, after |-> Len(hist)]]
  /\ cache' = CacheIncrStore(cache, NsKey(ns), 1)
  /\ id' = [id EXCEPT ![c] = Format(CacheIncrRet(cache, NsKey(ns), 1))]
  /\ nk' = [nk EXCEPT ![c] = NsKey(ns)]
  /\ added' = [added EXCEPT ![c] = FALSE]
  /\ IF ~Truthy(CacheIncrRet(cache, NsKey(ns), 1))
     THEN /\ pc' = [pc EXCEPT ![c] = "idle"]
          /\ hist' = Append(hist, [name |-> "flush", ns |-> ns, key |-> <<>>,
                                   val |-> <<>>, amount |-> 0, after |-> Len(hist),
                                   ret |-> PyNone, ver |-> id'[c], created |-> FALSE])
     ELSE /\ pc' = [pc EXCEPT ![c] = "flush_set"]
          /\ UNCHANGED hist

\* lines 87-88: the incr; the call is over when the incr returns a true value
FlushIncr(c, ns) ==
  /\ CanStart(c)
  /\ op' = [op EXCEPT ![c] = [name |-> "flush", ns |-> ns, key |-> <<>>,
                              val |-> <<>>, amount |-> 0, after |-> Len(hist)]]
  /\ cache' = CacheIncrStore(cache, NsKey(ns), 1)
  /\ id' = [id EXCEPT ![c] = Format(CacheIncrRet(cache, NsKey(ns), 1))]
  /\ nk' = [nk EXCEPT ![c] = NsKey(ns)]
  /\ added' = [added EXCEPT ![c] = FALSE]
  /\ IF Truthy(CacheIncrRet(cache, NsKey(ns), 1))
     THEN /\ pc' = [pc EXCEPT ![c] = "idle"]
          /\ hist' = Append(hist, [name |-> "flush", ns |-> ns, key |-> <<>>,
                                   val |-> <<>>, amount |-> 0, after |-> Len(hist),
                                   ret |-> PyNone, ver |-> id'[c], created |-> FALSE])
     ELSE /\ pc' = [pc EXCEPT ![c] = "flush_set"]
          /\ UNCHANGED hist

\* line 89
FlushSet(c) ==
  /\ pc[c] = "flush_set"
  /\ cache' = CacheSetStore(cache, nk[c], PyInt(1))
  /\ Return(c, PyNone)
  /\ UNCHANGED <<op, id, nk, added>>

\* ---------------------------------------------------------- specifications
\* one client, every call, on two namespaces whose derived keys meet
Next ==
  \/ \E ns \in Namespaces, key \in Keys :
       \/ GetKeyAdd("c1", "get", ns, key, <<>>, 0)
       \/ GetKeyAdd("c1", "delete", ns, key, <<>>, 0)
       \/ \E val \in Values :
            \/ GetKeyAdd("c1", "set", ns, key, val, 0)
            \/ GetKeyAdd("c1", "add", ns, key, val, 0)
       \/ \E amount \in Amounts :
            \/ GetKeyAdd("c1", "incr", ns, key, <<>>, amount)
            \/ GetKeyAdd("c1", "decr", ns, key, <<>>, amount)
  \/ \E ns \in Namespaces : FlushIncr("c1", ns)
  \/ GetKeyGet("c1")
  \/ NsGet("c1")
  \/ NsSet("c1")
  \/ NsAdd("c1")
  \/ NsIncr("c1")
  \/ NsDecr("c1")
  \/ NsDelete("c1")
  \/ FlushSet("c1")

Spec == Init /\ [][Next]_vars

\* one client counting: set, incr, decr and get on the two namespaces
NextCount ==
  \/ \E ns \in Namespaces, key \in Keys :
       \/ GetKeyAdd("c1", "get", ns, key, <<>>, 0)
       \/ \E val \in Values : GetKeyAdd("c1", "set", ns, key, val, 0)
       \/ \E amount \in Amounts :
            \/ GetKeyAdd("c1", "incr", ns, key, <<>>, amount)
            \/ GetKeyAdd("c1", "decr", ns, key, <<>>, amount)
  \/ GetKeyGet("c1")
  \/ NsGet("c1")
  \/ NsSet("c1")
  \/ NsIncr("c1")
  \/ NsDecr("c1")

SpecCount == Init /\ [][NextCount]_vars

\* one client deleting: set, delete, get and flush on the two namespaces
NextDelete ==
  \/ \E ns \in Namespaces, key \in Keys :
       \/ GetKeyAdd("c1", "get", ns, key, <<>>, 0)
       \/ GetKeyAdd("c1", "delete", ns, key, <<>>, 0)
       \/ \E val \in Values : GetKeyAdd("c1", "set", ns, key, val, 0)
  \/ \E ns \in Namespaces : FlushIncr("c1", ns)
  \/ GetKeyGet("c1")
  \/ NsGet("c1")
  \/ NsSet("c1")
  \/ NsDelete("c1")
  \/ FlushSet("c1")

SpecDelete == Init /\ [][NextDelete]_vars

\* two clients on one namespace: get, set and flush race
NextConc ==
  \/ \E c \in Pair, ns \in OneNamespace, key \in Keys :
       \/ GetKeyAdd(c, "get", ns, key, <<>>, 0)
       \/ \E val \in Values : GetKeyAdd(c, "set", ns, key, val, 0)
  \/ \E c \in Pair, ns \in OneNamespace : FlushIncr(c, ns)
  \/ \E c \in Pair :
       \/ GetKeyGet(c)
       \/ NsGet(c)
       \/ NsSet(c)
       \/ FlushSet(c)

SpecConc == Init /\ [][NextConc]_vars

\* three clients resolve keys (through ns_get) and nothing else
NextCreate ==
  \/ \E c \in Clients, ns \in OneNamespace, key \in TwoKeys :
       GetKeyAdd(c, "get", ns, key, <<>>, 0)
  \/ \E c \in Clients :
       \/ GetKeyGet(c)
       \/ NsGet(c)

SpecCreate == Init /\ [][NextCreate]_vars

\* three clients flush one namespace and resolve keys in it
NextFlush ==
  \/ \E c \in Clients, ns \in OneNamespace, key \in Keys :
       GetKeyAdd(c, "get", ns, key, <<>>, 0)
  \/ \E c \in Clients, ns \in OneNamespace : FlushIncr(c, ns)
  \/ \E c \in Clients :
       \/ GetKeyGet(c)
       \/ NsGet(c)
       \/ FlushSet(c)

SpecFlush == Init /\ [][NextFlush]_vars

\* ------------------------------------------------- reading the call history
N == Len(hist)

Is(e, name, ns, key) == e.name = name /\ e.ns = ns /\ e.key = key

IsFlush(e, ns) == e.name = "flush" /\ e.ns = ns

\* a call that writes the entry (ns, key)
WritesTo(e, ns, key) ==
  e.name \in {"set", "add", "incr", "decr", "delete"} /\ e.ns = ns /\ e.key = key

AllNamespaces == Namespaces \cup OneNamespace

\* --------------------------------------------------------------- the claims

\* C1: flush invalidates. Whenever ns_set(ns, k, v) has completed, ns_flush(ns)
\* has completed after it and no call has written (ns, k) since the set, a
\* later ns_get(ns, k) returns None.
C1_FlushInvalidates ==
  \A i, j, l \in 1..N :
    (/\ i < j /\ j < l
     /\ hist[i].name = "set"
     /\ IsFlush(hist[j], hist[i].ns)
     /\ Is(hist[l], "get", hist[i].ns, hist[i].key)
     /\ \A m \in (i + 1)..(l - 1) : ~WritesTo(hist[m], hist[i].ns, hist[i].key))
    => hist[l].ret = PyNone

\* C2: namespace isolation. After ns_set(ns1, k, v1) and then ns_set(ns2, k, v2)
\* with ns1 # ns2, the reads that follow return v1 for (ns1, k) and v2 for (ns2, k).
C2_NamespaceIsolation ==
  \A i, l \in 1..N :
    (/\ i + 1 < l
     /\ hist[i].name = "set" /\ hist[i + 1].name = "set"
     /\ hist[i].ns # hist[i + 1].ns /\ hist[i].key = hist[i + 1].key
     /\ \A m \in (i + 2)..l : hist[m].name = "get")
    => /\ Is(hist[l], "get", hist[i].ns, hist[i].key)
            => hist[l].ret = PyStr(hist[i].val)
       /\ Is(hist[l], "get", hist[i + 1].ns, hist[i].key)
            => hist[l].ret = PyStr(hist[i + 1].val)

\* C3: a flush leaves the other namespaces alone. After ns_set(ns1, k, x) and
\* then ns_flush(ns2) with ns1 # ns2, ns_get(ns1, k) returns x.
C3_FlushOtherNamespace ==
  \A i \in 1..N :
    (/\ i + 2 <= N
     /\ hist[i].name = "set"
     /\ hist[i + 1].name = "flush" /\ hist[i + 1].ns # hist[i].ns
     /\ Is(hist[i + 2], "get", hist[i].ns, hist[i].key))
    => hist[i + 2].ret = PyStr(hist[i].val)

\* C7: set/get round trip. Every ns_set returns True, and a later ns_get(ns, k)
\* returns the value set as long as no ns_flush(ns) and no write to (ns, k) came
\* in between, whatever was done to other namespaces and other keys.
C7_SetGetRoundTrip ==
  \A i \in 1..N :
    hist[i].name = "set" =>
      /\ hist[i].ret = PyTrue
      /\ \A l \in (i + 1)..N :
           (/\ Is(hist[l], "get", hist[i].ns, hist[i].key)
            /\ \A m \in (i + 1)..(l - 1) :
                 /\ ~IsFlush(hist[m], hist[i].ns)
                 /\ ~WritesTo(hist[m], hist[i].ns, hist[i].key))
           => hist[l].ret = PyStr(hist[i].val)

\* C9: increment/decrement round trip. Right after ns_set(ns, k, n) with n a
\* number, ns_incr(ns, k, a) returns n + a; ns_get(ns, k) right after it returns
\* the text of n + a; and ns_decr(ns, k, a) following the incr (with or without
\* the get in between) returns n.
C9_IncrDecrRoundTrip ==
  \A i \in 1..N :
    (/\ i + 1 <= N
     /\ hist[i].name = "set" /\ IsNumeric(hist[i].val)
     /\ Is(hist[i + 1], "incr", hist[i].ns, hist[i].key))
    => LET n == ToInt(hist[i].val)
           a == hist[i + 1].amount
           IsGet(e) == Is(e, "get", hist[i].ns, hist[i].key)
           IsDecr(e) == Is(e, "decr", hist[i].ns, hist[i].key) /\ e.amount = a
       IN /\ hist[i + 1].ret = PyInt(n + a)
          /\ (i + 2 <= N /\ IsGet(hist[i + 2])) => hist[i + 2].ret = PyStr(Dec(n + a))
          /\ (i + 2 <= N /\ IsDecr(hist[i + 2])) => hist[i + 2].ret = PyInt(n)
          /\ (i + 3 <= N /\ IsGet(hist[i + 2]) /\ IsDecr(hist[i + 3]))
               => hist[i + 3].ret = PyInt(n)

\* set, incr, get, decr have run in a row and the decr gave the value set back
C9_Witness ==
  /\ N = 4
  /\ hist[1].name = "set" /\ hist[1].val = <<"7">>
  /\ Is(hist[2], "incr", hist[1].ns, hist[1].key) /\ hist[2].amount = 2
  /\ Is(hist[3], "get", hist[1].ns, hist[1].key) /\ hist[3].ret = PyStr(<<"9">>)
  /\ Is(hist[4], "decr", hist[1].ns, hist[1].key) /\ hist[4].amount = 2
  /\ hist[4].ret = PyInt(7)

\* C10, the reads: right after ns_set(ns, k, v) and ns_delete(ns, k),
\* ns_get(ns, k) returns None; and after ns_delete(ns, k) and ns_flush(ns),
\* ns_set(ns, k, v2) returns True and the ns_get(ns, k) after it returns v2.
C10_DeleteThenRead ==
  \A i \in 1..N :
    /\ (/\ i + 2 <= N
        /\ hist[i].name = "set"
        /\ Is(hist[i + 1], "delete", hist[i].ns, hist[i].key)
        /\ Is(hist[i + 2], "get", hist[i].ns, hist[i].key))
       => hist[i + 2].ret = PyNone
    /\ (/\ i + 2 <= N
        /\ hist[i].name = "delete"
        /\ IsFlush(hist[i + 1], hist[i].ns)
        /\ Is(hist[i + 2], "set", hist[i].ns, hist[i].key))
       => /\ hist[i + 2].ret = PyTrue
          /\ (i + 3 <= N /\ Is(hist[i + 3], "get", hist[i].ns, hist[i].key))
               => hist[i + 3].ret = PyStr(hist[i + 2].val)

\* C10, the frame: every step of an ns_delete(ns, k) that follows ns_set(ns, k, v)
\* leaves the version counter of ns as it was, adds no key and changes or removes
\* no slot but that of (ns, k) at the current version.
C10_DeleteFrame ==
  \A c \in Clients :
    (/\ pc'[c] # pc[c]
     /\ op'[c].name = "delete"
     /\ N > 0
     /\ Is(hist[N], "set", op'[c].ns, op'[c].key))
    => /\ NsKey(op'[c].ns) \in DOMAIN cache
       /\ DOMAIN cache' \subseteq DOMAIN cache
       /\ \A x \in DOMAIN cache :
            x # RealKey(op'[c].ns, cache[NsKey(op'[c].ns)], op'[c].key)
              => x \in DOMAIN cache' /\ cache'[x] = cache[x]
       /\ cache'[NsKey(op'[c].ns)] = cache[NsKey(op'[c].ns)]
       /\ pc[c] = "call" => nk[c] \notin DOMAIN cache'

\* C10: delete removes within the current version only.
C10_DeleteCurrentVersionOnly == []C10_DeleteThenRead /\ [][C10_DeleteFrame]_vars

\* set, delete, get have run in a row on one entry: the delete removed the slot
\* and the get found nothing
C10_Witness ==
  /\ N >= 3
  /\ hist[1].name = "set"
  /\ Is(hist[2], "delete", hist[1].ns, hist[1].key) /\ hist[2].ret = PyInt(1)
  /\ Is(hist[3], "get", hist[1].ns, hist[1].key) /\ hist[3].ret = PyNone
  /\ RealKey(hist[1].ns, hist[1].ver, hist[1].key) \notin DOMAIN cache
  /\ NsKey(hist[1].ns) \in DOMAIN cache

\* --------------------------------------------- the claims about concurrency
Version(m, ns) == ToInt(m[NsKey(ns)])

\* C4: the version counter is monotonic. No step of any client removes an
\* existing control key or lowers its value, and the incr of an ns_flush on an
\* existing counter leaves it strictly greater.
C4_Step ==
  \A ns \in OneNamespace :
    NsKey(ns) \in DOMAIN cache =>
      /\ NsKey(ns) \in DOMAIN cache'
      /\ Version(cache', ns) >= Version(cache, ns)
      /\ \A c \in Clients :
           (op'[c] # op[c] /\ IsFlush(op'[c], ns))
             => Version(cache', ns) > Version(cache, ns)

C4_VersionMonotonic == [][C4_Step]_vars

\* C5: orphaned entries stay unreachable. When ns_set(ns, k, v) completed, an
\* ns_flush(ns) started and completed after it, and nothing else ever wrote
\* (ns, k), an ns_get(ns, k) started after that flush completed does not
\* return v.
C5_NeverResurrected ==
  \A i, j, l \in 1..N :
    (/\ i < j /\ j < l
     /\ hist[i].name = "set"
     /\ IsFlush(hist[j], hist[i].ns) /\ hist[j].after >= i
     /\ Is(hist[l], "get", hist[i].ns, hist[i].key) /\ hist[l].after >= j
     /\ \A m \in 1..N : m # i => ~WritesTo(hist[m], hist[i].ns, hist[i].key))
    => hist[l].ret # PyStr(hist[i].val)

\* the calls on ns completed, in flight, and past their key resolution
DoneOn(ns) == {i \in 1..N : hist[i].ns = ns /\ hist[i].name # "flush"}
Resolving(ns) ==
  {c \in Clients : pc[c] \in {"get_key_get", "call"} /\ op[c].ns = ns}
Resolved(ns) == {c \in Resolving(ns) : pc[c] = "call"}
Creators(ns) ==
  Cardinality({i \in DoneOn(ns) : hist[i].created})
    + Cardinality({c \in Resolving(ns) : added[c]})

\* C6: idempotent creation. With no flush around, however the adds and gets of
\* the clients' key resolutions interleave, exactly one add per namespace
\* succeeds, every resolution sees version 1 and returns '__<ns>_1_<key>'.
C6_IdempotentCreation ==
  \A ns \in AllNamespaces :
    /\ \A i \in DoneOn(ns) : hist[i].ver = <<"1">>
    /\ \A c \in Resolved(ns) :
         id[c] = <<"1">> /\ nk[c] = RealKey(ns, <<"1">>, op[c].key)
    /\ (DoneOn(ns) # {} \/ Resolving(ns) # {}) => Creators(ns) = 1

\* the three clients have resolved a key of one fresh namespace at the same
\* time: one add succeeded, two failed and read the counter back
C6_Witness ==
  \E ns \in AllNamespaces :
    /\ Resolved(ns) = Clients
    /\ \A c \in Clients : op[c].after = 0
    /\ Cardinality({c \in Clients : added[c]}) = 1
    /\ \A c, d \in Clients : op[c].key = op[d].key => nk[c] = nk[d]

\* the flushes of ns that took the set branch, the last of them, and the
\* flushes completed since
SetBranch(e, ns) == IsFlush(e, ns) /\ e.ver = Format(PyNone)
Base(ns) ==
  LET S == {i \in 1..N : SetBranch(hist[i], ns)}
  IN IF S = {} THEN 0 ELSE CHOOSE i \in S : \A j \in S : j <= i
Bumps(ns) == {i \in (Base(ns) + 1)..N : IsFlush(hist[i], ns)}

\* C8: no lost version bumps. Since the control key of ns was last created
\* (with value 1), and with no flush between its incr and its set, the counter
\* is 1 plus the number of flushes completed since, and these flushes each
\* produced a version of their own.
C8_NoLostBumps ==
  \A ns \in OneNamespace :
    (/\ NsKey(ns) \in DOMAIN cache
     /\ \A c \in Clients : ~(pc[c] = "flush_set" /\ op[c].ns = ns))
    => /\ Version(cache, ns) = 1 + Cardinality(Bumps(ns))
       /\ Cardinality({hist[i].ver : i \in Bumps(ns)}) = Cardinality(Bumps(ns))
       /\ \A i \in Bumps(ns) : ToInt(hist[i].ver) > 1

\* two flushes of an existing counter completed while a key resolution that
\* started before them was still in flight; the counter went from 1 to 3
C8_Witness ==
  \E ns \in OneNamespace :
    /\ Cardinality(Bumps(ns)) = 2 /\ Base(ns) = 0
    /\ NsKey(ns) \in DOMAIN cache /\ Version(cache, ns) = 3
    /\ \E c \in Clients : pc[c] = "get_key_get" /\ op[c].ns = ns /\ op[c].after = 0

\* ------------------------------------------------- the claims about ns_flush
\* no call before the j-th was made on ns and no writing call was sent to the
\* slot of its control key
NeverTouched(ns, j) ==
  \A m \in 1..(j - 1) :
    /\ hist[m].ns # ns
    /\ hist[m].name \notin {"flush", "get"}
         => RealKey(hist[m].ns, hist[m].ver, hist[m].key) # NsKey(ns)

AllIdle == \A c \in Clients : pc[c] = "idle"

\* C11: flushing a namespace nobody touched. The flush leaves its control key
\* at 1; an ns_get made right before the flush returns the same when made again
\* right after it; the call on ns that follows runs under version 1 and a
\* second ns_flush(ns) moves the counter to 2.
C11_FlushUntouched ==
  \A j \in 1..N :
    (IsFlush(hist[j], hist[j].ns) /\ NeverTouched(hist[j].ns, j)) =>
      LET ns == hist[j].ns
      IN /\ (j = N /\ AllIdle)
              => NsKey(ns) \in DOMAIN cache /\ cache[NsKey(ns)] = <<"1">>
         /\ (/\ 1 < j /\ j < N
             /\ hist[j - 1].name = "get"
             /\ Is(hist[j + 1], "get", hist[j - 1].ns, hist[j - 1].key))
              => hist[j + 1].ret = hist[j - 1].ret
         /\ (j < N /\ hist[j + 1].ns = ns /\ hist[j + 1].name # "flush")
              => hist[j + 1].ver = <<"1">>
         /\ (j < N /\ IsFlush(hist[j + 1], ns)) => hist[j + 1].ver = <<"2">>
         /\ (/\ j + 2 <= N
             /\ Is(hist[j + 1], "get", ns, hist[j + 1].key)
             /\ IsFlush(hist[j + 2], ns))
              => hist[j + 2].ver = <<"2">>

\* -------------------------------------------------- the claim about ns_add
\* two namespaces and two keys whose derived entry keys meet:
\* ("a", 2, "1_b") and ("a_2", 1, "b") both give "__a_2_1_b"
AddNamespaces == {<<"a">>, <<"a", "_", "2">>}

AddKeys == {<<"b">>, <<"1", "_", "b">>}

\* one client setting, adding, reading and flushing on them
NextAdd ==
  \/ \E ns \in AddNamespaces, key \in AddKeys :
       \/ GetKeyAdd("c1", "get", ns, key, <<>>, 0)
       \/ \E val \in Values :
            \/ GetKeyAdd("c1", "set", ns, key, val, 0)
            \/ GetKeyAdd("c1", "add", ns, key, val, 0)
  \/ \E ns \in AddNamespaces : FlushIncr("c1", ns)
  \/ GetKeyGet("c1")
  \/ NsGet("c1")
  \/ NsSet("c1")
  \/ NsAdd("c1")
  \/ FlushSet("c1")

SpecAdd == Init /\ [][NextAdd]_vars

\* C12: ns_add is add-if-absent per version. An ns_add(ns, k, v) that comes
\* right after ns_set(ns, k, v0) and ns_flush(ns) finds no entry under the new
\* version: it succeeds, and the ns_get(ns, k) that follows returns v.
C12_AddAfterFlush ==
  \A j \in 3..N :
    (/\ hist[j].name = "add"
     /\ Is(hist[j - 2], "set", hist[j].ns, hist[j].key)
     /\ IsFlush(hist[j - 1], hist[j].ns)) =>
      /\ hist[j].ret = PyTrue
      /\ (j < N /\ Is(hist[j + 1], "get", hist[j].ns, hist[j].key))
           => hist[j + 1].ret = PyStr(hist[j].val)

\* ------------------------------------------------ the claim about _get_key
\* the namespace and the key of the doctest
KeyNamespaces == {<<"n", "s", "1">>}

KeyKeys == {<<"k", "1">>}

\* two clients reading, writing and flushing the doctest's entry
NextKey ==
  \/ \E c \in Pair, ns \in KeyNamespaces, key \in KeyKeys :
       \/ GetKeyAdd(c, "get", ns, key, <<>>, 0)
       \/ \E val \in Values : GetKeyAdd(c, "set", ns, key, val, 0)
  \/ \E c \in Pair, ns \in KeyNamespaces : FlushIncr(c, ns)
  \/ \E c \in Pair :
       \/ GetKeyGet(c)
       \/ NsGet(c)
       \/ NsSet(c)
       \/ FlushSet(c)

SpecKey == Init /\ [][NextKey]_vars

\* the control key of the namespace a client's call names, spelled out
ControlKeyOf(o) == <<"_", "_", "n", "s", "_">> \o o.ns

\* the key _get_key hands back is "__" ns "_" version "_" key, and the version
\* of a call whose add created the control key is 1
C13_Returned ==
  \A c \in Pair :
    pc[c] = "call" =>
      /\ nk[c] = <<"_", "_">> \o op[c].ns \o <<"_">> \o id[c] \o <<"_">> \o op[c].key
      /\ added[c] => id[c] = <<"1">>

\* the add creates the control key exactly when it is absent, the get that
\* follows a failed add supplies the version, and on a fresh cache the
\* resolution of ('ns1', 'k1') gives '__ns1_1_k1' and leaves '__ns_ns1' at 1
C13_Step ==
  \A c \in Pair :
    /\ (pc[c] = "idle" /\ pc'[c] \in {"call", "get_key_get"}) =>
         /\ added'[c] = (ControlKeyOf(op'[c]) \notin DOMAIN cache)
         /\ ControlKeyOf(op'[c]) \in DOMAIN cache'
         /\ (pc'[c] = "call") = added'[c]
         /\ cache = <<>> =>
              /\ nk'[c] = <<"_", "_", "n", "s", "1", "_", "1", "_", "k", "1">>
              /\ cache' = (<<"_", "_", "n", "s", "_", "n", "s", "1">> :> <<"1">>)
    /\ (pc[c] = "get_key_get" /\ pc'[c] = "call") =>
         /\ ~added'[c]
         /\ ControlKeyOf(op[c]) \in DOMAIN cache
         /\ id'[c] = cache[ControlKeyOf(op[c])]

\* C13: key derivation. Every resolution returns "__" + ns + "_" + version +
\* "_" + k, the version being 1 when this call's add created the control key
\* "__ns_" + ns and the value the following get read otherwise; on a fresh
\* cache ('ns1', 'k1') resolves to '__ns1_1_k1' and '__ns_ns1' holds 1.
C13_KeyDerivation == []C13_Returned /\ [][C13_Step]_vars

\* a call that found the control key at 2 and resolved under it
C13_Witness ==
  \E c \in Pair :
    /\ pc[c] = "call"
    /\ ~added[c]
    /\ id[c] = <<"2">>
    /\ nk[c] = <<"_", "_", "n", "s", "1", "_", "2", "_", "k", "1">>

\* --------------------------------------- the claims about keys and frames
\* the (namespace, version, key) triples of the completed calls but flushes
Triples ==
  {<<hist[j].ns, hist[j].ver, hist[j].key>> : j \in {m \in 1..N : hist[m].name # "flush"}}

\* C14: key-space separation. Distinct (ns, version, key) triples never derive
\* the same key, and the key a call resolved is never the control key of any
\* namespace.
C14_KeySpaceSeparation ==
  /\ \A s \in Triples, t \in Triples :
       RealKey(s[1], s[2], s[3]) = RealKey(t[1], t[2], t[3]) => s = t
  /\ \A c \in Clients, ns \in Namespaces : pc[c] = "call" => nk[c] # NsKey(ns)

\* the keys under which the completed calls read or wrote entries
EntryKeys == {RealKey(t[1], t[2], t[3]) : t \in Triples}

\* the slot k is the same before and after the step
SameSlot(k) ==
  /\ (k \in DOMAIN cache) = (k \in DOMAIN cache')
  /\ k \in DOMAIN cache => cache'[k] = cache[k]

\* the step is one of client c's ns_flush: its incr or its set
FlushStep(c) ==
  \/ pc[c] = "idle" /\ op'[c] # op[c] /\ op'[c].name = "flush"
  \/ pc[c] = "flush_set" /\ pc'[c] = "idle"

\* C15: the frame of ns_flush. A step of ns_flush(ns) removes no slot, changes
\* no slot but the control key of ns, and leaves every entry slot and every
\* other namespace's control key as it was.
C15_Step ==
  \A c \in Clients :
    FlushStep(c) =>
      /\ DOMAIN cache \subseteq DOMAIN cache'
      /\ \A k \in DOMAIN cache' : k # NsKey(op'[c].ns) => SameSlot(k)
      /\ \A ns \in Namespaces : ns # op'[c].ns => SameSlot(NsKey(ns))
      /\ \A k \in EntryKeys : SameSlot(k)

C15_FlushFrame == [][C15_Step]_vars

\* the step is one of client c's key resolution or of its ns_get
ReadStep(c) ==
  \/ pc[c] = "idle" /\ op'[c] # op[c] /\ op'[c].name = "get"
  \/ pc[c] \in {"get_key_get", "call"} /\ pc'[c] # pc[c] /\ op[c].name = "get"

\* C16: the frame of the read side. A step of ns_get(ns, k) changes the cache
\* at most by creating the absent control key of ns with 1: it modifies no
\* control key that exists, touches no other namespace's control key, and
\* creates, changes or removes no entry slot.
C16_Step ==
  \A c \in Clients :
    ReadStep(c) =>
      /\ cache' # cache =>
           /\ NsKey(op'[c].ns) \notin DOMAIN cache
           /\ cache' = Put(cache, NsKey(op'[c].ns), <<"1">>)
      /\ \A ns \in Namespaces : ns # op'[c].ns => SameSlot(NsKey(ns))
      /\ \A k \in EntryKeys : SameSlot(k)

C16_ReadFrame == [][C16_Step]_vars

\* ------------------------------------------- the claim about bounded work
\* one client, every call, on one entry
NextWork ==
  \/ \E ns \in OneNamespace, key \in Keys :
       \/ GetKeyAdd("c1", "get", ns, key, <<>>, 0)
       \/ GetKeyAdd("c1", "delete", ns, key, <<>>, 0)
       \/ \E val \in Values :
            \/ GetKeyAdd("c1", "set", ns, key, val, 0)
            \/ GetKeyAdd("c1", "add", ns, key, val, 0)
       \/ \E amount \in Amounts :
            \/ GetKeyAdd("c1", "incr", ns, key, <<>>, amount)
            \/ GetKeyAdd("c1", "decr", ns, key, <<>>, amount)
  \/ \E ns \in OneNamespace : FlushIncr("c1", ns)
  \/ GetKeyGet("c1")
  \/ NsGet("c1")
  \/ NsSet("c1")
  \/ NsAdd("c1")
  \/ NsIncr("c1")
  \/ NsDecr("c1")
  \/ NsDelete("c1")
  \/ FlushSet("c1")

SpecWork == Init /\ [][NextWork]_vars

\* the slots the step changed
Changed ==
  {k \in DOMAIN cache \cup DOMAIN cache' : ~SameSlot(k)}

\* the step completed one call of client c and no other
Completes(c) ==
  /\ pc'[c] = "idle"
  /\ Len(hist') = Len(hist) + 1
  /\ hist'[Len(hist')].after = op'[c].after
  /\ hist'[Len(hist')].name = op'[c].name

\* every step is one primitive of a call, in the order of the code: the add of
\* the resolution, then its get only when the add failed, then the one
\* delegated primitive, which ends the call whatever it returned; the incr of
\* ns_flush, then its set only when the incr failed
C17_Step ==
  \A c \in Clients :
    pc'[c] # pc[c] \/ op'[c] # op[c] =>
      /\ Cardinality(Changed) <= 1
      /\ pc[c] = "idle" =>
           \/ /\ op'[c].name # "flush"
              /\ pc'[c] = (IF NsKey(op'[c].ns) \in DOMAIN cache
                           THEN "get_key_get" ELSE "call")
              /\ Changed \subseteq {NsKey(op'[c].ns)}
              /\ hist' = hist
           \/ /\ op'[c].name = "flush"
              /\ Changed \subseteq {NsKey(op'[c].ns)}
              /\ IF Changed # {}
                 THEN Completes(c)
                 ELSE pc'[c] = "flush_set" /\ hist' = hist
      /\ pc[c] = "get_key_get" =>
           /\ pc'[c] = "call"
           /\ Changed = {}
           /\ hist' = hist
      /\ pc[c] = "call" =>
           /\ Completes(c)
           /\ Changed \subseteq {nk[c]}
      /\ pc[c] = "flush_set" =>
           /\ Completes(c)
           /\ Changed \subseteq {NsKey(op[c].ns)}

\* C17: bounded work, no retries. A key resolution issues one add and at most
\* one get, ns_flush one incr and at most one set, every other ns_* call one
\* resolution and exactly one delegated primitive; nothing is issued again
\* after it failed.
C17_BoundedWork == [][C17_Step]_vars

\* an ns_add that failed after a resolution that needed the get, and an
\* ns_flush whose incr failed, both over
C17_Witness ==
  /\ AllIdle
  /\ \E j \in 1..N :
       hist[j].name = "add" /\ hist[j].ret = PyFalse /\ ~hist[j].created
  /\ \E j \in 1..N : hist[j].name = "flush" /\ hist[j].ver = PyNone.val

\* ------------------------------- the claim about a missing or spoilt counter
\* the namespace whose control key is the entry key of ("ns", "a") at 1
Shadowed == {<<"1", "_", "a">>}

\* c1 reads and writes an entry of the shadowed namespace while c2 writes and
\* deletes the entry of ("ns", "a"), that is the other's control key
NextMissing ==
  \/ \E ns \in Shadowed, key \in Keys :
       \/ GetKeyAdd("c1", "get", ns, key, <<>>, 0)
       \/ \E val \in Values : GetKeyAdd("c1", "set", ns, key, val, 0)
  \/ \E ns \in OneNamespace, key \in Keys :
       \/ GetKeyAdd("c2", "delete", ns, key, <<>>, 0)
       \/ \E val \in Values : GetKeyAdd("c2", "set", ns, key, val, 0)
  \/ \E c \in Pair :
       \/ GetKeyGet(c)
       \/ NsGet(c)
       \/ NsSet(c)
       \/ NsDelete(c)

SpecMissing == Init /\ [][NextMissing]_vars

\* the text of what a get of the control key gives back
ReadAs(k) == IF k \in DOMAIN cache THEN cache[k] ELSE <<"N", "o", "n", "e">>

\* the version a call resolved is no number
NoVersion(c) == ~added[c] /\ ~IsNumeric(id[c])

\* after a failed add, the key handed back is built from whatever the get
\* gave back, be it None or a text that is no number
C18_Returned ==
  \A c \in Pair :
    (pc[c] = "call" /\ NoVersion(c)) =>
      nk[c] = <<"_", "_">> \o op[c].ns \o <<"_">> \o id[c] \o <<"_">> \o op[c].key

\* the get of the resolution takes the text verbatim and writes nothing; the
\* delegated primitive then runs on the key so built, ends the call and
\* leaves the control key as it found it
C18_Step ==
  \A c \in Pair :
    /\ (pc[c] = "get_key_get" /\ pc'[c] # pc[c]) =>
         /\ pc'[c] = "call"
         /\ id'[c] = ReadAs(ControlKeyOf(op[c]))
         /\ cache' = cache
    /\ (pc[c] = "call" /\ pc'[c] # pc[c] /\ NoVersion(c)) =>
         /\ Completes(c)
         /\ hist'[Len(hist')].ver = id[c]
         /\ Changed \subseteq {nk[c]}
         /\ SameSlot(ControlKeyOf(op[c]))
         /\ op[c].name = "set" =>
              nk[c] \in DOMAIN cache' /\ cache'[nk[c]] = op[c].val
         /\ op[c].name = "get" =>
              hist'[Len(hist')].ret = CacheGet(cache, nk[c])

\* C18: a missing or corrupted counter is passed through. When the add fails
\* and the get that follows finds nothing or a text that is no number, the
\* resolution still returns the key built from it verbatim, the wrapped
\* primitive still runs on that key, and the call does not repair the control
\* key.
C18_PassThrough == []C18_Returned /\ [][C18_Step]_vars

\* a call that ran under the text 'x' and an ns_set that ran under 'None' and
\* stored its value there
C18_Witness ==
  /\ \E j \in 1..N : hist[j].ver = <<"x">> /\ hist[j].ns \in Shadowed
  /\ \E j \in 1..N :
       /\ hist[j].name = "set"
       /\ hist[j].ns \in Shadowed
       /\ hist[j].ver = <<"N", "o", "n", "e">>
       /\ <<"_", "_", "1", "_", "a", "_", "N", "o", "n", "e", "_", "a">> \in DOMAIN cache

====
